---- MODULE Spec2Model ----
(***************************************************************************)
(* cloudwatch_metrics_agent: the sampling / aggregation / publishing       *)
(* pipeline of src/lib.rs with its shutdown protocol, and the aggregation  *)
(* function of src/metrics.rs.                                             *)
(*                                                                         *)
(* Tasks (tokio): metrics_collector, the aggregation heartbeat,            *)
(* metrics_publisher and handle_shutdown, talking over two bounded mpsc    *)
(* channels.  Utilizations are fixed-point integers; the unit is chosen so *)
(* that the midpoint of two sampled values is representable.               *)
(***************************************************************************)
EXTENDS Integers, Sequences, FiniteSets, TLC

VARIABLES
    collector_pc,     \* metrics_collector: "sleep" | "send" | "finished"
    series,           \* metrics_collector: Vec<Measurement> buffer
    aggregated,       \* metrics_collector: aggregated_measurement awaiting tx.send (Option)
    clock,            \* SystemTime::now(), counted in samples taken
    rx_aggregation,   \* control channel Heartbeat/Coordinator -> Collector
    rx_metric,        \* hand-off channel Collector/Coordinator -> Publisher
    heartbeat_pc,     \* heartbeat task: "sleep" | "send"
    beats,            \* number of heartbeat firings so far
    publisher_pc,     \* metrics_publisher: "recv" | "lock" | "send" | "finished"
    measurement,      \* metrics_publisher: the Metric being delivered (Option)
    publisher_lock,   \* TokioMutex around the sink: TRUE while held
    shutdown_pc,      \* handle_shutdown position
    sink,             \* history: every call of the sink's send, with its result
    forwarded,        \* history: aggregates the collector put on the hand-off channel
    handled,          \* history: control messages the collector took off its channel
    enqueued,         \* history: control messages put on the control channel, in order
    sys,              \* what the OS reports to the sampler (sysinfo System, cgroup files)
    test_senders      \* Sender handles held by the caller of the tasks in the tests

vars == <<collector_pc, series, aggregated, clock, rx_aggregation, rx_metric,
          heartbeat_pc, beats, publisher_pc, measurement, publisher_lock,
          shutdown_pc, sink, forwarded, handled, enqueued, sys, test_senders>>

-----------------------------------------------------------------------------
(* Bounds of the model *)

\* heartbeat firings explored
MaxBeats == 4
\* ticks that find the control channel empty stop once this many samples are taken
MaxSamples == 1
\* longest series given to aggregate in SpecAggregate
MaxSeries == 4
\* most cores the host of SpecMeasurement reports
MaxCores == 2
\* largest memory counter (bytes) the host of SpecMeasurement reports
MaxBytes == 2
\* control messages the caller sends in SpecHarness
MaxTestMessages == 2

(* Program constants *)

\* mpsc::channel(4) for PublisherMessage
MetricCapacity == 4
\* mpsc::channel(4) for CollectorMessage
AggregationCapacity == 4
\* cpu_usage() is a percentage: cpu_sum / cpu_count / 100.0
Percent == 100

-----------------------------------------------------------------------------
(* Option<T> as a sequence of length 0 or 1 *)
None == <<>>
Some(x) == <<x>>

(* What the sampler reports in a tick of the pipeline: <<cpu, mem, max_mem>>. *)
(* No branch of lib.rs reads a utilization; SpecAggregate varies them.      *)
Readings == { <<4, 2, 6>> }

(* The samples SpecAggregate feeds to aggregate *)
AggregateReadings == { <<0, 2, 2>>, <<2, 0, 4>>, <<4, 6, 6>>, <<6, 8, 8>> }
AggregateTimestamps == 1 .. 2

TerminationTriggers == { "ctrl_c", "sigterm", "additional_shutdown" }

-----------------------------------------------------------------------------
(* metrics.rs *)

Measurement(ts, cpu, mem, maxmem, count) ==
    [ timestamp           |-> ts,
      cpu_utilization     |-> cpu,
      mem_utilization     |-> mem,
      max_mem_utilization |-> maxmem,
      sample_count        |-> count ]

create_measurement(now, reading) ==
    Measurement(now, reading[1], reading[2], reading[3], 1)

RECURSIVE InsertSorted(_, _)
InsertSorted(x, s) ==
    IF s = <<>> THEN <<x>>
    ELSE IF x <= Head(s) THEN <<x>> \o s
    ELSE <<Head(s)>> \o InsertSorted(x, Tail(s))

RECURSIVE sorted(_)
sorted(s) ==
    IF s = <<>> THEN <<>> ELSE InsertSorted(Head(s), sorted(Tail(s)))

\* Medianf64::median of a non-empty vector
medianUpperMiddle(v) ==
    LET s == sorted(v)
    IN  s[Len(v) \div 2 + 1]

median(v) ==
    LET n == Len(v)
        s == sorted(v)
    IN  IF n % 2 = 1
        THEN s[(n + 1) \div 2]
        ELSE (s[n \div 2] + s[n \div 2 + 1]) \div 2

RECURSIVE FoldMax(_, _)
FoldMax(v, acc) ==
    IF v = <<>> THEN acc
    ELSE FoldMax(Tail(v), IF Head(v) > acc THEN Head(v) ELSE acc)

\* Vecops::minmax(..).max of a non-empty vector
minmax_min(v) == sorted(v)[1]

minmax_max(v) == FoldMax(Tail(v), Head(v))

cpu_values(s) == [i \in 1 .. Len(s) |-> s[i].cpu_utilization]
mem_values(s) == [i \in 1 .. Len(s) |-> s[i].mem_utilization]
max_mem_values(s) == [i \in 1 .. Len(s) |-> s[i].max_mem_utilization]

aggregateFirstTimestamp(s) ==
    IF s = <<>> THEN None
    ELSE Some(Measurement(s[1].timestamp,
                          median(cpu_values(s)),
                          median(mem_values(s)),
                          minmax_max(max_mem_values(s)),
                          Len(s)))

\* series.len() as u32 is Len(s): a buffer never reaches 2^32 samples
aggregate(s) ==
    IF s = <<>> THEN None
    ELSE Some(Measurement(s[Len(s)].timestamp,
                          median(cpu_values(s)),
                          median(mem_values(s)),
                          minmax_max(max_mem_values(s)),
                          Len(s)))

-----------------------------------------------------------------------------
(* memory.rs and create_measurement of metrics.rs: the f64 arithmetic.       *)
(* An f64 quotient a / b of two counters is kept as the pair <<a, b>>:       *)
(* <<0, 0>> is NaN, <<a, 0>> with a > 0 is +inf, anything else is the        *)
(* finite a / b.                                                             *)

\* per-core cpu_usage() values, in percent
CpuUsages == { 0, 50, 100 }
Bytes == 0 .. MaxBytes
OptionBytes == { None } \cup { Some(b) : b \in Bytes }

\* what sysinfo and the cgroup v1 files report; a cgroup file that cannot be
\* read or parsed (or a limit at the "unlimited" mark) is None
Hosts ==
    { h \in [ cpus              : UNION { [1 .. k -> CpuUsages] : k \in 0 .. MaxCores },
              used_memory       : Bytes,
              total_memory      : Bytes,
              cgroups_usage     : OptionBytes,
              cgroups_max_usage : OptionBytes,
              cgroups_limit     : OptionBytes ] :
        h.used_memory <= h.total_memory }

QuietHost ==
    [ cpus |-> <<0>>, used_memory |-> 0, total_memory |-> 1,
      cgroups_usage |-> None, cgroups_max_usage |-> None, cgroups_limit |-> None ]

is_nan(x) == x[1] = 0 /\ x[2] = 0

nan_to_zero(x) == IF ~is_nan(x) THEN x ELSE <<0, 1>>

MemoryMeasurement(u, m) == [ utilization |-> u, max_utilization |-> m ]

collect_memory_cgroups_v1(h) ==
    IF h.cgroups_usage /= None /\ h.cgroups_max_usage /= None /\ h.cgroups_limit /= None
    THEN Some(MemoryMeasurement(<<h.cgroups_usage[1], h.cgroups_limit[1]>>,
                                <<h.cgroups_max_usage[1], h.cgroups_limit[1]>>))
    ELSE None

collect_memory_sysinfo(h) ==
    MemoryMeasurement(<<h.used_memory, h.total_memory>>,
                      <<h.used_memory, h.total_memory>>)

collect_memory(h) ==
    IF collect_memory_cgroups_v1(h) /= None
    THEN collect_memory_cgroups_v1(h)[1]
    ELSE collect_memory_sysinfo(h)

RECURSIVE cpu_sum(_)
cpu_sum(cpus) == IF cpus = <<>> THEN 0 ELSE Head(cpus) + cpu_sum(Tail(cpus))

\* a sum of finite cpu_usage() values is never NaN
cpu_avg(cpus) ==
    IF Len(cpus) > 0 THEN <<cpu_sum(cpus), Len(cpus) * Percent>> ELSE <<0, 1>>

\* the <<cpu, mem, max_mem>> create_measurement puts in its Measurement
reading_of(h) ==
    <<cpu_avg(h.cpus),
      nan_to_zero(collect_memory(h).utilization),
      nan_to_zero(collect_memory(h).max_utilization)>>

-----------------------------------------------------------------------------
(* lib.rs: messages and channels *)

\* CollectorMessage; `from` records which sender enqueued it
CollectorMessage(kind, sender) == [ type |-> kind, from |-> sender ]

\* PublisherMessage::Metric(m) / PublisherMessage::Quit
Metric(m) == [ type |-> "Metric", payload |-> Some(m) ]
Quit == [ type |-> "Quit", payload |-> None ]

\* the receiver half lives in the task that owns it and is dropped when the
\* task finishes
rx_aggregation_closed == collector_pc = "finished"
rx_metric_closed == publisher_pc = "finished"

\* senders of the hand-off channel still alive: tx_metric (collector),
\* tx_publisher_shutdown (moved into handle_shutdown) and, in the tests, tx2
tx_metric_alive ==
    \/ collector_pc /= "finished"
    \/ shutdown_pc \notin { "done", "panicked", "absent" }
    \/ "tx2" \in test_senders

\* senders of the control channel still alive: tx_aggregation (heartbeat task,
\* or the caller in the tests) and tx_collector_shutdown (handle_shutdown)
tx_aggregation_alive ==
    \/ heartbeat_pc /= "absent"
    \/ shutdown_pc \notin { "done", "panicked", "absent" }
    \/ "tx_aggregation" \in test_senders

\* Sender::send on a bounded tokio mpsc channel that has room: FIFO
mpsc_send_front(queue, message) == <<message>> \o queue

mpsc_send(queue, message) == Append(queue, message)

\* series.clear()
clear_nothing(s) == s

clear(s) == <<>>

-----------------------------------------------------------------------------
Init ==
    /\ collector_pc = "sleep"
    /\ series = <<>>
    /\ aggregated = None
    /\ clock = 0
    /\ rx_aggregation = <<>>
    /\ rx_metric = <<>>
    /\ heartbeat_pc = "sleep"
    /\ beats = 0
    /\ publisher_pc = "recv"
    /\ measurement = None
    /\ publisher_lock = FALSE
    /\ shutdown_pc = "select"
    /\ sink = <<>>
    /\ forwarded = <<>>
    /\ handled = <<>>
    /\ enqueued = <<>>
    /\ sys = QuietHost
    /\ test_senders = {}

-----------------------------------------------------------------------------
\* a collector that leaves on Quit before it keeps the sample of the tick
CollectorTickQuitBeforeSample ==
    /\ collector_pc = "sleep"
    /\ \E reading \in Readings :
         LET now == clock + 1
             pushed == Append(series, create_measurement(now, reading))
         IN  /\ clock' = now
             /\ IF rx_aggregation /= <<>>
                THEN \* Ok(message)
                     LET message == Head(rx_aggregation)
                         result == aggregate(pushed)
                     IN  /\ handled' = Append(handled,
                                [ type |-> message.type, from |-> message.from,
                                  at |-> now, buffered |-> Len(pushed) ])
                         /\ IF message.type = "Aggregation"
                            THEN IF result /= None
                                 THEN /\ series' = clear(pushed)
                                      /\ aggregated' = result
                                      /\ collector_pc' = "send"
                                      /\ rx_aggregation' = Tail(rx_aggregation)
                                 ELSE /\ series' = pushed
                                      /\ aggregated' = None
                                      /\ collector_pc' = "sleep"
                                      /\ rx_aggregation' = Tail(rx_aggregation)
                            ELSE /\ series' = series
                                 /\ aggregated' = None
                                 /\ collector_pc' = "finished"
                                 /\ rx_aggregation' = <<>>
                ELSE \* Err(Empty) and Err(Disconnected) both fall through to the sleep
                     /\ clock < MaxSamples
                     /\ series' = pushed
                     /\ collector_pc' = "sleep"
                     /\ UNCHANGED <<aggregated, rx_aggregation, handled>>
    /\ UNCHANGED <<rx_metric, heartbeat_pc, beats, publisher_pc, measurement,
                   publisher_lock, shutdown_pc, sink, forwarded, enqueued, sys, test_senders>>

\* a collector whose Quit arm lacks the break
CollectorTickQuitContinues ==
    /\ collector_pc = "sleep"
    /\ \E reading \in Readings :
         LET now == clock + 1
             pushed == Append(series, create_measurement(now, reading))
         IN  /\ clock' = now
             /\ IF rx_aggregation /= <<>>
                THEN \* Ok(message)
                     LET message == Head(rx_aggregation)
                         result == aggregate(pushed)
                     IN  /\ handled' = Append(handled,
                                [ type |-> message.type, from |-> message.from,
                                  at |-> now, buffered |-> Len(pushed) ])
                         /\ IF message.type = "Aggregation"
                            THEN IF result /= None
                                 THEN /\ series' = clear(pushed)
                                      /\ aggregated' = result
                                      /\ collector_pc' = "send"
                                      /\ rx_aggregation' = Tail(rx_aggregation)
                                 ELSE /\ series' = pushed
                                      /\ aggregated' = None
                                      /\ collector_pc' = "sleep"
                                      /\ rx_aggregation' = Tail(rx_aggregation)
                            ELSE /\ series' = pushed
                                 /\ aggregated' = None
                                 /\ collector_pc' = "sleep"
                                 /\ rx_aggregation' = Tail(rx_aggregation)
                ELSE \* Err(Empty) and Err(Disconnected) both fall through to the sleep
                     /\ clock < MaxSamples
                     /\ series' = pushed
                     /\ collector_pc' = "sleep"
                     /\ UNCHANGED <<aggregated, rx_aggregation, handled>>
    /\ UNCHANGED <<rx_metric, heartbeat_pc, beats, publisher_pc, measurement,
                   publisher_lock, shutdown_pc, sink, forwarded, enqueued, sys, test_senders>>

(* metrics_collector: one iteration of the loop up to its next suspension.  *)
(* series.push and try_recv have no await between them.                     *)
CollectorTick ==
    /\ collector_pc = "sleep"
    /\ \E reading \in Readings :
         LET now == clock + 1
             pushed == Append(series, create_measurement(now, reading))
         IN  /\ clock' = now
             /\ IF rx_aggregation /= <<>>
                THEN \* Ok(message)
                     LET message == Head(rx_aggregation)
                         result == aggregate(pushed)
                     IN  /\ handled' = Append(handled,
                                [ type |-> message.type, from |-> message.from,
                                  at |-> now, buffered |-> Len(pushed) ])
                         /\ IF message.type = "Aggregation"
                            THEN IF result /= None
                                 THEN /\ series' = clear(pushed)
                                      /\ aggregated' = result
                                      /\ collector_pc' = "send"
                                      /\ rx_aggregation' = Tail(rx_aggregation)
                                 ELSE /\ series' = pushed
                                      /\ aggregated' = None
                                      /\ collector_pc' = "sleep"
                                      /\ rx_aggregation' = Tail(rx_aggregation)
                            ELSE \* CollectorMessage::Quit: break, the receiver is dropped
                                 /\ series' = pushed
                                 /\ aggregated' = None
                                 /\ collector_pc' = "finished"
                                 /\ rx_aggregation' = <<>>
                ELSE \* Err(Empty) and Err(Disconnected) both fall through to the sleep
                     /\ clock < MaxSamples
                     /\ series' = pushed
                     /\ collector_pc' = "sleep"
                     /\ UNCHANGED <<aggregated, rx_aggregation, handled>>
    /\ UNCHANGED <<rx_metric, heartbeat_pc, beats, publisher_pc, measurement,
                   publisher_lock, shutdown_pc, sink, forwarded, enqueued, sys, test_senders>>

\* a forward into a channel without a capacity
CollectorSendUnbounded ==
    /\ collector_pc = "send"
    /\ IF rx_metric_closed
       THEN /\ collector_pc' = "finished"
            /\ rx_aggregation' = <<>>
            /\ UNCHANGED <<rx_metric, forwarded>>
       ELSE /\ rx_metric' = mpsc_send(rx_metric, Metric(aggregated[1]))
            /\ forwarded' = Append(forwarded, aggregated[1])
            /\ collector_pc' = "sleep"
            /\ UNCHANGED rx_aggregation
    /\ aggregated' = None
    /\ UNCHANGED <<series, clock, heartbeat_pc, beats, publisher_pc, measurement,
                   publisher_lock, shutdown_pc, sink, handled, enqueued, sys, test_senders>>

\* a forward that gives up on a full channel instead of waiting
CollectorSendDropWhenFull ==
    /\ collector_pc = "send"
    /\ IF rx_metric_closed
       THEN /\ collector_pc' = "finished"
            /\ rx_aggregation' = <<>>
            /\ UNCHANGED <<rx_metric, forwarded>>
       ELSE /\ collector_pc' = "sleep"
            /\ UNCHANGED rx_aggregation
            /\ IF Len(rx_metric) < MetricCapacity
               THEN /\ rx_metric' = mpsc_send(rx_metric, Metric(aggregated[1]))
                    /\ forwarded' = Append(forwarded, aggregated[1])
               ELSE UNCHANGED <<rx_metric, forwarded>>
    /\ aggregated' = None
    /\ UNCHANGED <<series, clock, heartbeat_pc, beats, publisher_pc, measurement,
                   publisher_lock, shutdown_pc, sink, handled, enqueued, sys, test_senders>>

(* metrics_collector: tx.send(PublisherMessage::Metric(..)).await *)
CollectorSend ==
    /\ collector_pc = "send"
    /\ IF rx_metric_closed
       THEN \* Err(err): error!, break
            /\ collector_pc' = "finished"
            /\ rx_aggregation' = <<>>
            /\ UNCHANGED <<rx_metric, forwarded>>
       ELSE /\ Len(rx_metric) < MetricCapacity
            /\ rx_metric' = mpsc_send(rx_metric, Metric(aggregated[1]))
            /\ forwarded' = Append(forwarded, aggregated[1])
            /\ collector_pc' = "sleep"
            /\ UNCHANGED rx_aggregation
    /\ aggregated' = None
    /\ UNCHANGED <<series, clock, heartbeat_pc, beats, publisher_pc, measurement,
                   publisher_lock, shutdown_pc, sink, handled, enqueued, sys, test_senders>>

-----------------------------------------------------------------------------
(* the aggregation heartbeat of main_runner *)
HeartbeatFire ==
    /\ heartbeat_pc = "sleep"
    /\ beats < MaxBeats
    /\ beats' = beats + 1
    /\ heartbeat_pc' = "send"
    /\ UNCHANGED <<collector_pc, series, aggregated, clock, rx_aggregation, rx_metric,
                   publisher_pc, measurement, publisher_lock, shutdown_pc, sink,
                   forwarded, handled, enqueued, sys, test_senders>>

\* a heartbeat that leaves its loop on a failed send
HeartbeatSendBreakOnErr ==
    /\ heartbeat_pc = "send"
    /\ IF rx_aggregation_closed
       THEN \* Err(err): error!, the loop goes on
            UNCHANGED <<rx_aggregation, enqueued>>
       ELSE /\ Len(rx_aggregation) < AggregationCapacity
            /\ rx_aggregation' =
                 mpsc_send(rx_aggregation, CollectorMessage("Aggregation", "heartbeat"))
            /\ enqueued' =
                 Append(enqueued, CollectorMessage("Aggregation", "heartbeat"))
    /\ heartbeat_pc' = IF rx_aggregation_closed THEN "stopped" ELSE "sleep"
    /\ UNCHANGED <<collector_pc, series, aggregated, clock, rx_metric, beats,
                   publisher_pc, measurement, publisher_lock, shutdown_pc, sink,
                   forwarded, handled, sys, test_senders>>

HeartbeatSend ==
    /\ heartbeat_pc = "send"
    /\ IF rx_aggregation_closed
       THEN \* Err(err): error!, the loop goes on
            UNCHANGED <<rx_aggregation, enqueued>>
       ELSE /\ Len(rx_aggregation) < AggregationCapacity
            /\ rx_aggregation' =
                 mpsc_send(rx_aggregation, CollectorMessage("Aggregation", "heartbeat"))
            /\ enqueued' =
                 Append(enqueued, CollectorMessage("Aggregation", "heartbeat"))
    /\ heartbeat_pc' = "sleep"
    /\ UNCHANGED <<collector_pc, series, aggregated, clock, rx_metric, beats,
                   publisher_pc, measurement, publisher_lock, shutdown_pc, sink,
                   forwarded, handled, sys, test_senders>>

-----------------------------------------------------------------------------
(* metrics_publisher *)

\* a publisher whose Quit arm lacks the break
PublisherRecvQuitContinues ==
    /\ publisher_pc = "recv"
    /\ IF rx_metric /= <<>>
       THEN LET message == Head(rx_metric)
            IN  IF message.type = "Metric"
                THEN /\ measurement' = message.payload
                     /\ publisher_pc' = "lock"
                     /\ rx_metric' = Tail(rx_metric)
                ELSE /\ measurement' = None
                     /\ publisher_pc' = "recv"
                     /\ rx_metric' = Tail(rx_metric)
       ELSE \* recv() yields None once every sender is gone
            /\ ~tx_metric_alive
            /\ measurement' = None
            /\ publisher_pc' = "finished"
            /\ rx_metric' = <<>>
    /\ UNCHANGED <<collector_pc, series, aggregated, clock, rx_aggregation,
                   heartbeat_pc, beats, publisher_lock, shutdown_pc, sink,
                   forwarded, handled, enqueued, sys, test_senders>>

PublisherRecv ==
    /\ publisher_pc = "recv"
    /\ IF rx_metric /= <<>>
       THEN LET message == Head(rx_metric)
            IN  IF message.type = "Metric"
                THEN /\ measurement' = message.payload
                     /\ publisher_pc' = "lock"
                     /\ rx_metric' = Tail(rx_metric)
                ELSE \* PublisherMessage::Quit: break, the receiver is dropped
                     /\ measurement' = None
                     /\ publisher_pc' = "finished"
                     /\ rx_metric' = <<>>
       ELSE \* recv() yields None once every sender is gone
            /\ ~tx_metric_alive
            /\ measurement' = None
            /\ publisher_pc' = "finished"
            /\ rx_metric' = <<>>
    /\ UNCHANGED <<collector_pc, series, aggregated, clock, rx_aggregation,
                   heartbeat_pc, beats, publisher_lock, shutdown_pc, sink,
                   forwarded, handled, enqueued, sys, test_senders>>

PublisherLock ==
    /\ publisher_pc = "lock"
    /\ ~publisher_lock
    /\ publisher_lock' = TRUE
    /\ publisher_pc' = "send"
    /\ UNCHANGED <<collector_pc, series, aggregated, clock, rx_aggregation, rx_metric,
                   heartbeat_pc, beats, measurement, shutdown_pc, sink, forwarded,
                   handled, enqueued, sys, test_senders>>

\* a publisher that hands a failed measurement to the sink again
PublisherSendRetryOnErr ==
    /\ publisher_pc = "send"
    /\ \E ok \in BOOLEAN :
         /\ sink' = Append(sink, [ measurement |-> measurement[1], ok |-> ok ])
         /\ publisher_pc' = IF ok THEN "recv" ELSE "lock"
         /\ measurement' = IF ok THEN None ELSE measurement
    /\ publisher_lock' = FALSE
    /\ UNCHANGED <<collector_pc, series, aggregated, clock, rx_aggregation, rx_metric,
                   heartbeat_pc, beats, shutdown_pc, forwarded, handled, enqueued,
                   sys, test_senders>>

\* a publisher whose lock guard outlives the match arm
PublisherSendKeepsLock ==
    /\ publisher_pc = "send"
    /\ \E ok \in BOOLEAN :
         sink' = Append(sink, [ measurement |-> measurement[1], ok |-> ok ])
    /\ measurement' = None
    /\ publisher_pc' = "recv"
    /\ UNCHANGED <<collector_pc, series, aggregated, clock, rx_aggregation, rx_metric,
                   heartbeat_pc, beats, publisher_lock, shutdown_pc, forwarded,
                   handled, enqueued, sys, test_senders>>

\* a publisher that leaves its loop on a failed send
PublisherSendBreakOnErr ==
    /\ publisher_pc = "send"
    /\ \E ok \in BOOLEAN :
         /\ sink' = Append(sink, [ measurement |-> measurement[1], ok |-> ok ])
         /\ publisher_pc' = IF ok THEN "recv" ELSE "finished"
         /\ rx_metric' = IF ok THEN rx_metric ELSE <<>>
    /\ measurement' = None
    /\ publisher_lock' = FALSE
    /\ UNCHANGED <<collector_pc, series, aggregated, clock, rx_aggregation,
                   heartbeat_pc, beats, shutdown_pc, forwarded, handled, enqueued, sys, test_senders>>

\* ref_publisher.send(measurement).await returns Ok or Err; the guard is
\* released at the end of the match arm
PublisherSend ==
    /\ publisher_pc = "send"
    /\ \E ok \in BOOLEAN :
         sink' = Append(sink, [ measurement |-> measurement[1], ok |-> ok ])
    /\ measurement' = None
    /\ publisher_lock' = FALSE
    /\ publisher_pc' = "recv"
    /\ UNCHANGED <<collector_pc, series, aggregated, clock, rx_aggregation, rx_metric,
                   heartbeat_pc, beats, shutdown_pc, forwarded, handled, enqueued, sys, test_senders>>

-----------------------------------------------------------------------------
(* handle_shutdown *)
ShutdownSelect ==
    /\ shutdown_pc = "select"
    /\ \E trigger \in TerminationTriggers : shutdown_pc' = "send_aggregation"
    /\ UNCHANGED <<collector_pc, series, aggregated, clock, rx_aggregation, rx_metric,
                   heartbeat_pc, beats, publisher_pc, measurement, publisher_lock,
                   sink, forwarded, handled, enqueued, sys, test_senders>>

ShutdownSendCollector(at, kind, next) ==
    /\ shutdown_pc = at
    /\ IF rx_aggregation_closed
       THEN \* unwrap() of the SendError
            /\ shutdown_pc' = "panicked"
            /\ UNCHANGED <<rx_aggregation, enqueued>>
       ELSE /\ Len(rx_aggregation) < AggregationCapacity
            /\ rx_aggregation' =
                 mpsc_send(rx_aggregation, CollectorMessage(kind, "shutdown"))
            /\ enqueued' = Append(enqueued, CollectorMessage(kind, "shutdown"))
            /\ shutdown_pc' = next
    /\ UNCHANGED <<collector_pc, series, aggregated, clock, rx_metric, heartbeat_pc,
                   beats, publisher_pc, measurement, publisher_lock, sink, forwarded,
                   handled, sys, test_senders>>

\* a shutdown without the final flush
ShutdownSendAggregationSkipped ==
    /\ shutdown_pc = "send_aggregation"
    /\ shutdown_pc' = "send_quit"
    /\ UNCHANGED <<collector_pc, series, aggregated, clock, rx_aggregation, rx_metric,
                   heartbeat_pc, beats, publisher_pc, measurement, publisher_lock,
                   sink, forwarded, handled, enqueued, sys, test_senders>>

ShutdownSendAggregation ==
    ShutdownSendCollector("send_aggregation", "Aggregation", "send_quit")

\* a shutdown that repeats the Aggregation message where Quit is meant
ShutdownSendQuitAsAggregation ==
    ShutdownSendCollector("send_quit", "Aggregation", "join_collector")

ShutdownSendQuit ==
    ShutdownSendCollector("send_quit", "Quit", "join_collector")

\* a shutdown that does not wait for the collector task
ShutdownJoinCollectorSkipped ==
    /\ shutdown_pc = "join_collector"
    /\ shutdown_pc' = "send_publisher_quit"
    /\ UNCHANGED <<collector_pc, series, aggregated, clock, rx_aggregation, rx_metric,
                   heartbeat_pc, beats, publisher_pc, measurement, publisher_lock,
                   sink, forwarded, handled, enqueued, sys, test_senders>>

ShutdownJoinCollector ==
    /\ shutdown_pc = "join_collector"
    /\ collector_pc = "finished"
    /\ shutdown_pc' = "send_publisher_quit"
    /\ UNCHANGED <<collector_pc, series, aggregated, clock, rx_aggregation, rx_metric,
                   heartbeat_pc, beats, publisher_pc, measurement, publisher_lock,
                   sink, forwarded, handled, enqueued, sys, test_senders>>

ShutdownSendPublisherQuit ==
    /\ shutdown_pc = "send_publisher_quit"
    /\ IF rx_metric_closed
       THEN \* unwrap() of the SendError
            /\ shutdown_pc' = "panicked"
            /\ UNCHANGED rx_metric
       ELSE /\ Len(rx_metric) < MetricCapacity
            /\ rx_metric' = mpsc_send(rx_metric, Quit)
            /\ shutdown_pc' = "join_publisher"
    /\ UNCHANGED <<collector_pc, series, aggregated, clock, rx_aggregation,
                   heartbeat_pc, beats, publisher_pc, measurement, publisher_lock,
                   sink, forwarded, handled, enqueued, sys, test_senders>>

ShutdownJoinPublisher ==
    /\ shutdown_pc = "join_publisher"
    /\ publisher_pc = "finished"
    /\ shutdown_pc' = "done"
    /\ UNCHANGED <<collector_pc, series, aggregated, clock, rx_aggregation, rx_metric,
                   heartbeat_pc, beats, publisher_pc, measurement, publisher_lock,
                   sink, forwarded, handled, enqueued, sys, test_senders>>

-----------------------------------------------------------------------------
Next ==
    \/ CollectorTick
    \/ CollectorSend
    \/ HeartbeatFire
    \/ HeartbeatSend
    \/ PublisherRecv
    \/ PublisherLock
    \/ PublisherSend
    \/ ShutdownSelect
    \/ ShutdownSendAggregation
    \/ ShutdownSendQuit
    \/ ShutdownJoinCollector
    \/ ShutdownSendPublisherQuit
    \/ ShutdownJoinPublisher

Spec == Init /\ [][Next]_vars

(* Scheduling: every task that can run is eventually polled (tokio), a sink *)
(* send returns, and a sender waiting for a slot of a bounded channel gets  *)
(* one (the channel's semaphore serves waiters first-come first-served).    *)
Fairness ==
    /\ WF_vars(CollectorTick)
    /\ WF_vars(CollectorSend)
    /\ WF_vars(PublisherRecv)
    /\ WF_vars(PublisherLock)
    /\ WF_vars(PublisherSend)
    /\ SF_vars(ShutdownSendAggregation)
    /\ SF_vars(ShutdownSendQuit)
    /\ WF_vars(ShutdownJoinCollector)
    /\ WF_vars(ShutdownSendPublisherQuit)
    /\ WF_vars(ShutdownJoinPublisher)

LiveSpec == Spec /\ Fairness

(* The timer of the heartbeat fires every period, and its send goes through  *)
(* once the control channel keeps a slot free or is closed.                  *)
HeartbeatFairness ==
    /\ WF_vars(HeartbeatFire)
    /\ WF_vars(HeartbeatSend)

LiveHeartbeat == LiveSpec /\ HeartbeatFairness

-----------------------------------------------------------------------------
(* aggregate on its own: every series of up to MaxSeries raw samples *)

AggregateSamples ==
    { create_measurement(ts, reading) :
        ts \in AggregateTimestamps, reading \in AggregateReadings }

\* the buffer is filled in the order of the clock
SeriesUpTo(n) ==
    { s \in UNION { [1 .. k -> AggregateSamples] : k \in 0 .. n } :
        \A i \in 1 .. Len(s) - 1 : s[i].timestamp <= s[i + 1].timestamp }

InitAggregate ==
    /\ collector_pc = "call"
    /\ series \in SeriesUpTo(MaxSeries)
    /\ aggregated = None
    /\ clock = 0
    /\ rx_aggregation = <<>>
    /\ rx_metric = <<>>
    /\ heartbeat_pc = "sleep"
    /\ beats = 0
    /\ publisher_pc = "recv"
    /\ measurement = None
    /\ publisher_lock = FALSE
    /\ shutdown_pc = "select"
    /\ sink = <<>>
    /\ forwarded = <<>>
    /\ handled = <<>>
    /\ enqueued = <<>>
    /\ sys = QuietHost
    /\ test_senders = {}

AggregateCall ==
    /\ collector_pc = "call"
    /\ aggregated' = aggregate(series)
    /\ collector_pc' = "returned"
    /\ UNCHANGED <<series, clock, rx_aggregation, rx_metric, heartbeat_pc, beats,
                   publisher_pc, measurement, publisher_lock, shutdown_pc, sink,
                   forwarded, handled, enqueued, sys, test_senders>>

SpecAggregate == InitAggregate /\ [][AggregateCall]_vars

-----------------------------------------------------------------------------
(* create_measurement on its own: every host of Hosts *)

InitMeasurement ==
    /\ collector_pc = "call"
    /\ series = <<>>
    /\ aggregated = None
    /\ clock = 0
    /\ rx_aggregation = <<>>
    /\ rx_metric = <<>>
    /\ heartbeat_pc = "sleep"
    /\ beats = 0
    /\ publisher_pc = "recv"
    /\ measurement = None
    /\ publisher_lock = FALSE
    /\ shutdown_pc = "select"
    /\ sink = <<>>
    /\ forwarded = <<>>
    /\ handled = <<>>
    /\ enqueued = <<>>
    /\ sys \in Hosts
    /\ test_senders = {}

\* let measurement = create_measurement(..); series.push(measurement)
MeasurementCall ==
    /\ collector_pc = "call"
    /\ clock' = clock + 1
    /\ series' = Append(series, create_measurement(clock + 1, reading_of(sys)))
    /\ collector_pc' = "returned"
    /\ UNCHANGED <<aggregated, rx_aggregation, rx_metric, heartbeat_pc, beats,
                   publisher_pc, measurement, publisher_lock, shutdown_pc, sink,
                   forwarded, handled, enqueued, sys, test_senders>>

SpecMeasurement == InitMeasurement /\ [][MeasurementCall]_vars

-----------------------------------------------------------------------------
(* The tasks under the tests of lib.rs: no heartbeat task; the caller holds  *)
(* tx_aggregation and tx2 (a clone of tx_metric), sends control messages and *)
(* the publisher's Quit itself, drops its handles, and calls handle_shutdown *)
(* (test_publish_remaining) or not (test_collector_multiple, test_publish).  *)

TestSenders == { "tx_aggregation", "tx2" }

InitHarness ==
    /\ collector_pc = "sleep"
    /\ series = <<>>
    /\ aggregated = None
    /\ clock = 0
    /\ rx_aggregation = <<>>
    /\ rx_metric = <<>>
    /\ heartbeat_pc = "absent"
    /\ beats = 0
    /\ publisher_pc = "recv"
    /\ measurement = None
    /\ publisher_lock = FALSE
    /\ shutdown_pc \in { "select", "absent" }
    /\ sink = <<>>
    /\ forwarded = <<>>
    /\ handled = <<>>
    /\ enqueued = <<>>
    /\ sys = QuietHost
    /\ test_senders = TestSenders

TestMessagesSent == Cardinality({ i \in 1 .. Len(enqueued) : enqueued[i].from = "test" })

\* let _ = tx_aggregation.send(..).await; on a closed channel the Err is
\* discarded and nothing changes
TestSendCollector ==
    /\ "tx_aggregation" \in test_senders
    /\ TestMessagesSent < MaxTestMessages
    /\ ~rx_aggregation_closed
    /\ Len(rx_aggregation) < AggregationCapacity
    /\ \E kind \in { "Aggregation", "Quit" } :
         /\ rx_aggregation' = mpsc_send(rx_aggregation, CollectorMessage(kind, "test"))
         /\ enqueued' = Append(enqueued, CollectorMessage(kind, "test"))
    /\ UNCHANGED <<collector_pc, series, aggregated, clock, rx_metric, heartbeat_pc,
                   beats, publisher_pc, measurement, publisher_lock, shutdown_pc, sink,
                   forwarded, handled, sys, test_senders>>

\* let _ = tx2.send(PublisherMessage::Quit).await, once
TestSendPublisherQuit ==
    /\ "tx2" \in test_senders
    /\ ~rx_metric_closed
    /\ Len(rx_metric) < MetricCapacity
    /\ \A i \in 1 .. Len(rx_metric) : rx_metric[i].type /= "Quit"
    /\ rx_metric' = mpsc_send(rx_metric, Quit)
    /\ UNCHANGED <<collector_pc, series, aggregated, clock, rx_aggregation,
                   heartbeat_pc, beats, publisher_pc, measurement, publisher_lock,
                   shutdown_pc, sink, forwarded, handled, enqueued, sys, test_senders>>

\* a handle of the caller goes out of scope
TestDrop ==
    /\ \E handle \in test_senders : test_senders' = test_senders \ { handle }
    /\ UNCHANGED <<collector_pc, series, aggregated, clock, rx_aggregation, rx_metric,
                   heartbeat_pc, beats, publisher_pc, measurement, publisher_lock,
                   shutdown_pc, sink, forwarded, handled, enqueued, sys>>

NextHarness ==
    \/ CollectorTick
    \/ CollectorSend
    \/ PublisherRecv
    \/ PublisherLock
    \/ PublisherSend
    \/ ShutdownSelect
    \/ ShutdownSendAggregation
    \/ ShutdownSendQuit
    \/ ShutdownJoinCollector
    \/ ShutdownSendPublisherQuit
    \/ ShutdownJoinPublisher
    \/ TestSendCollector
    \/ TestSendPublisherQuit
    \/ TestDrop

SpecHarness == InitHarness /\ [][NextHarness]_vars

\* the tasks are polled under the tests as they are under main_runner
LiveHarness == SpecHarness /\ Fairness

-----------------------------------------------------------------------------
(* Properties *)

SinkMeasurements == [i \in 1 .. Len(sink) |-> sink[i].measurement]

\* the Metric payloads waiting in the hand-off channel, in order
RECURSIVE QueuedMetrics(_)
QueuedMetrics(q) ==
    IF q = <<>> THEN <<>>
    ELSE IF Head(q).type = "Metric"
         THEN <<Head(q).payload[1]>> \o QueuedMetrics(Tail(q))
         ELSE QueuedMetrics(Tail(q))

\* number of Aggregation messages among the first j of a log of control messages
Aggregations(log, j) ==
    Cardinality({ i \in 1 .. j : log[i].type = "Aggregation" })

PublisherQuitSent ==
    \/ shutdown_pc \in { "join_publisher", "done" }
    \/ \E i \in 1 .. Len(rx_metric) : rx_metric[i].type = "Quit"

\* C1: the publisher's Quit is sent only after the collector task has
\* terminated, and handle_shutdown returns Ok only after the collector task
\* and the publisher task have both terminated.
C1_ShutdownOrder ==
    /\ PublisherQuitSent => collector_pc = "finished"
    /\ shutdown_pc = "done" =>
         collector_pc = "finished" /\ publisher_pc = "finished"

C1_Witness ==
    /\ shutdown_pc = "done"
    /\ collector_pc = "finished"
    /\ publisher_pc = "finished"
    /\ Len(sink) >= 1

\* C2: when handle_shutdown has returned Ok, every aggregate the collector
\* put on the hand-off channel has been passed to the sink's send; nothing is
\* left in the channel, and the publisher's Quit is never ahead of a Metric.
C2_NothingDropped ==
    /\ \A i \in 1 .. Len(rx_metric) :
         rx_metric[i].type = "Quit" => i = Len(rx_metric)
    /\ shutdown_pc = "done" =>
         /\ \A i \in 1 .. Len(forwarded) :
              \E j \in 1 .. Len(sink) : sink[j].measurement = forwarded[i]
         /\ QueuedMetrics(rx_metric) = <<>>
         /\ measurement = None

C2_Witness ==
    /\ shutdown_pc = "done"
    /\ Len(forwarded) >= 3
    /\ \A i \in 1 .. Len(forwarded) :
         \E j \in 1 .. Len(sink) : sink[j].measurement = forwarded[i]

IsShutdownAggregation(m) == m.type = "Aggregation" /\ m.from = "shutdown"

\* C3: the collector handles the coordinator's final Aggregation before the
\* coordinator's Quit, with any heartbeat triggers around it; the aggregate
\* forwarded for it has the sample_count and the timestamp of the whole
\* buffer at the tick that handled it, and it is forwarded before the stop.
C3_FinalFlush ==
    \A q \in 1 .. Len(handled) :
      handled[q].type = "Quit" =>
        \E j \in 1 .. q - 1 :
          /\ IsShutdownAggregation(handled[j])
          /\ LET k == Aggregations(handled, j)
             IN  /\ k <= Len(forwarded)
                 /\ forwarded[k].sample_count = handled[j].buffered
                 /\ forwarded[k].timestamp = handled[j].at

C3_Witness ==
    /\ collector_pc = "finished"
    /\ \E i, j, q \in 1 .. Len(handled) :
         /\ i < j /\ j < q
         /\ IsShutdownAggregation(handled[i])
         /\ handled[i].buffered >= 2
         /\ handled[j].type = "Aggregation" /\ handled[j].from = "heartbeat"
         /\ handled[q].type = "Quit"

\* C4: once a termination trigger has occurred, handle_shutdown eventually
\* returns Ok, under fair scheduling and a sink whose send returns.
C4_ShutdownCompletes == (shutdown_pc /= "select") ~> (shutdown_pc = "done")

\* the coordinator waits for a collector that cannot forward its final
\* aggregate: the heartbeat has filled the hand-off channel and the publisher
\* has taken nothing yet
C4_Witness ==
    /\ shutdown_pc = "join_collector"
    /\ collector_pc = "send"
    /\ Len(rx_metric) = MetricCapacity
    /\ beats = MaxBeats
    /\ sink = <<>>

\* C5: whatever the pattern of failed sends, no Metric is lost on the way to
\* the sink's send (every forwarded aggregate is delivered, in flight or still
\* queued), and the publisher leaves its loop only on Quit or when the
\* hand-off channel is empty with every sender gone.
C5_Conservation ==
    forwarded = SinkMeasurements \o measurement \o QueuedMetrics(rx_metric)

C5_ExitOnlyOnQuit ==
    (publisher_pc /= "finished" /\ publisher_pc' = "finished") =>
        /\ publisher_pc = "recv"
        /\ \/ rx_metric /= <<>> /\ Head(rx_metric).type = "Quit"
           \/ rx_metric = <<>> /\ ~tx_metric_alive

C5_FailureIsolation == [](C5_Conservation) /\ [][C5_ExitOnlyOnQuit]_vars

C5_Witness ==
    /\ publisher_pc = "finished"
    /\ Len(sink) >= 3
    /\ ~sink[1].ok
    /\ sink[2].ok
    /\ ~sink[3].ok

\* number of Aggregation messages put on the control channel ahead of the Quit
TriggersAheadOfQuit ==
    LET q == CHOOSE i \in 1 .. Len(enqueued) : enqueued[i].type = "Quit"
    IN  Aggregations(enqueued, q - 1)

\* C6: after a clean shutdown the sink has been called once for every
\* Aggregation message enqueued on the control channel ahead of the
\* coordinator's Quit, the coordinator's own included; one trigger followed by
\* the shutdown gives 2.
C6_AggregatesAtSink ==
    shutdown_pc = "done" =>
        /\ Len(sink) = TriggersAheadOfQuit
        /\ (/\ Len(enqueued) >= 3
            /\ enqueued[1].from = "heartbeat"
            /\ IsShutdownAggregation(enqueued[2])
            /\ enqueued[3].type = "Quit") => Len(sink) = 2

C6_Witness ==
    /\ shutdown_pc = "done"
    /\ Len(enqueued) >= 3
    /\ enqueued[1].from = "heartbeat"
    /\ IsShutdownAggregation(enqueued[2])
    /\ enqueued[3].type = "Quit"
    /\ Len(sink) = 2

\* C7: every Aggregation message handled gives exactly one aggregate (forwarded,
\* or waiting for a slot), whose sample_count is at least 1 and is the number
\* of samples taken since the previous aggregation; k triggers then Quit give
\* k forwarded aggregates.
C7_OneAggregatePerTrigger ==
    /\ Len(forwarded) + Len(aggregated) = Aggregations(handled, Len(handled))
    /\ collector_pc = "finished" =>
         Len(forwarded) = Aggregations(handled, Len(handled))
    /\ \A k \in 1 .. Len(forwarded) :
         /\ forwarded[k].sample_count >= 1
         /\ forwarded[k].sample_count =
              forwarded[k].timestamp
                - (IF k = 1 THEN 0 ELSE forwarded[k - 1].timestamp)

C7_Witness ==
    /\ collector_pc = "finished"
    /\ Aggregations(handled, Len(handled)) = 3
    /\ Len(forwarded) = 3
    /\ \E k \in 1 .. 3 : forwarded[k].sample_count >= 2

\* C8: the sink's send is called for the aggregates in the order the
\* collector forwarded them.
C8_SinkOrder ==
    /\ Len(sink) <= Len(forwarded)
    /\ \A i \in 1 .. Len(sink) : sink[i].measurement = forwarded[i]

C8_Witness ==
    /\ Len(sink) >= 3
    /\ \A i \in 1 .. Len(sink) : sink[i].measurement = forwarded[i]
    /\ forwarded[1] /= forwarded[2]

\* C9: aggregate returns None for an empty series; for a non-empty series S it
\* returns a Measurement with sample_count = len(S) and the timestamp of the
\* last element of S.
C9_CountAndTimestamp ==
    collector_pc = "returned" =>
        IF series = <<>>
        THEN aggregated = None
        ELSE /\ aggregated /= None
             /\ aggregated[1].sample_count = Len(series)
             /\ aggregated[1].timestamp = series[Len(series)].timestamp

C9_Witness ==
    /\ collector_pc = "returned"
    /\ Len(series) = 3
    /\ series[1].timestamp /= series[3].timestamp
    /\ aggregated /= None
    /\ aggregated[1].sample_count = 3
    /\ aggregated[1].timestamp = series[3].timestamp

\* the k-th smallest value of v, by rank
OrderStatistic(v, k) ==
    CHOOSE x \in { v[i] : i \in 1 .. Len(v) } :
        /\ Cardinality({ i \in 1 .. Len(v) : v[i] < x }) < k
        /\ Cardinality({ i \in 1 .. Len(v) : v[i] <= x }) >= k

\* m is the median of v: the middle value, or the mean of the two middle values
IsMedian(v, m) ==
    LET n == Len(v)
    IN  IF n % 2 = 1
        THEN m = OrderStatistic(v, (n + 1) \div 2)
        ELSE 2 * m = OrderStatistic(v, n \div 2) + OrderStatistic(v, n \div 2 + 1)

Permuted(s, p) == [i \in 1 .. Len(s) |-> s[p[i]]]

\* C10: for a non-empty series S, aggregate(S).cpu_utilization and
\* aggregate(S).mem_utilization are the medians of the per-sample values (the
\* mean of the two middle values when len(S) is even), whatever the order of S.
C10_Median ==
    (collector_pc = "returned" /\ series /= <<>>) =>
        /\ IsMedian(cpu_values(series), aggregated[1].cpu_utilization)
        /\ IsMedian(mem_values(series), aggregated[1].mem_utilization)
        /\ \A p \in Permutations(1 .. Len(series)) :
             LET other == aggregate(Permuted(series, p))[1]
             IN  /\ other.cpu_utilization = aggregated[1].cpu_utilization
                 /\ other.mem_utilization = aggregated[1].mem_utilization

\* four samples out of order whose two middle cpu values differ
C10_Witness ==
    /\ collector_pc = "returned"
    /\ Len(series) = 4
    /\ cpu_values(series) = <<6, 0, 4, 2>>
    /\ aggregated[1].cpu_utilization = 3
    /\ aggregated[1].mem_utilization /= aggregated[1].cpu_utilization

-----------------------------------------------------------------------------
(* C11: for a non-empty series, the max_mem_utilization of the aggregate is *)
(* the maximum of the samples' max_mem_utilization: no sample exceeds it    *)
(* and some sample has it.                                                  *)
C11_MaxOfMaxMem ==
    (collector_pc = "returned" /\ series /= <<>>) =>
        /\ aggregated /= None
        /\ \A i \in 1 .. Len(series) :
              series[i].max_mem_utilization <= aggregated[1].max_mem_utilization
        /\ \E i \in 1 .. Len(series) :
              series[i].max_mem_utilization = aggregated[1].max_mem_utilization

\* the peak sits in the middle of the series and differs from the median
C11_Witness ==
    /\ collector_pc = "returned"
    /\ Len(series) = 3
    /\ series[2].max_mem_utilization > series[1].max_mem_utilization
    /\ series[2].max_mem_utilization > series[3].max_mem_utilization
    /\ aggregated[1].max_mem_utilization = series[2].max_mem_utilization
    /\ aggregated[1].max_mem_utilization /= median(max_mem_values(series))

-----------------------------------------------------------------------------
\* a finite f64 quotient within [0, 1]
InUnitRange(x) == x[2] > 0 /\ 0 <= x[1] /\ x[1] <= x[2]

(* C12: every raw sample has 0 <= cpu_utilization <= 1 and                  *)
(* 0 <= mem_utilization <= 1 and neither is NaN, whatever the cores and the *)
(* memory counters report, a cgroup limit of zero and a cgroup usage above  *)
(* the limit included.                                                      *)
C12_UnitRange ==
    collector_pc = "returned" =>
        /\ InUnitRange(series[1].cpu_utilization)
        /\ InUnitRange(series[1].mem_utilization)

-----------------------------------------------------------------------------
\* the collector is waiting in tx.send for a slot of the hand-off channel
ForwardWaits ==
    /\ collector_pc = "send"
    /\ ~rx_metric_closed
    /\ Len(rx_metric) = MetricCapacity

(* C13 as stated: the collector suspends only on its sleep and on its       *)
(* non-blocking control check, so it is never held up by the publisher, the *)
(* sink or the hand-off queue: a forward always finds room.                 *)
C13_OnlySleepSuspends == ~ForwardWaits

(* C13, amended: the forward of an aggregate is a third suspension point.   *)
(* While the hand-off queue is full the collector stays in the forward: it  *)
(* takes no sample, handles no control message and keeps its aggregate, so  *)
(* its ticking depends on the publisher freeing a slot.                     *)
C13_WaitsForSlot ==
    /\ [](collector_pc \in { "sleep", "send", "finished" })
    /\ [][ForwardWaits =>
            /\ collector_pc' = "send"
            /\ clock' = clock
            /\ series' = series
            /\ handled' = handled
            /\ aggregated' = aggregated
            /\ forwarded' = forwarded]_vars

\* the collector waits with the final aggregate while the publisher has not
\* yet taken any of the four queued ones
C13_Witness ==
    /\ ForwardWaits
    /\ publisher_pc = "recv"
    /\ shutdown_pc = "send_quit"
    /\ rx_aggregation = <<>>
    /\ aggregated /= None

-----------------------------------------------------------------------------
(* C14: every task stops when it observes Quit or when its incoming queue   *)
(* is closed: a collector tick that finds Quit, or finds the control queue  *)
(* empty with every sender dropped, ends the collector; a publisher receive *)
(* that finds Quit, or finds the hand-off queue empty with every sender     *)
(* dropped, ends the publisher.                                             *)
C14_StopsOnQuitOrClose ==
    [][/\ ( /\ collector_pc = "sleep"
            /\ clock' /= clock
            /\ \/ rx_aggregation /= <<>> /\ Head(rx_aggregation).type = "Quit"
               \/ rx_aggregation = <<>> /\ ~tx_aggregation_alive )
          => collector_pc' = "finished"
       /\ ( /\ publisher_pc = "recv"
            /\ publisher_pc' /= publisher_pc
            /\ \/ rx_metric /= <<>> /\ Head(rx_metric).type = "Quit"
               \/ rx_metric = <<>> /\ ~tx_metric_alive )
          => publisher_pc' = "finished"]_vars

-----------------------------------------------------------------------------
\* the collector left its loop because tx.send returned Err
ForwardFailed ==
    /\ collector_pc = "finished"
    /\ \A i \in 1 .. Len(handled) : handled[i].type /= "Quit"

(* C15: when the hand-off queue is closed at a forward the collector stops  *)
(* without crashing, and a shutdown triggered afterwards still runs through *)
(* the coordinator to its completion: the coordinator never crashes on the  *)
(* stopped collector.                                                       *)
C15_ShutdownSurvivesClosedHandOff ==
    []((ForwardFailed /\ shutdown_pc = "select") => [](shutdown_pc /= "panicked"))

-----------------------------------------------------------------------------
\* the collector is about to take Quit off the control channel
QuitAtHead ==
    /\ collector_pc = "sleep"
    /\ rx_aggregation /= <<>>
    /\ Head(rx_aggregation).type = "Quit"

(* C16: the tick that handles Quit stops the collector without aggregating  *)
(* or forwarding the buffered samples; the stopped collector takes no       *)
(* sample, handles no control message and forwards nothing, so a trigger    *)
(* enqueued behind the Quit never produces an aggregate.                    *)
C16_QuitStops ==
    [][/\ (QuitAtHead /\ clock' /= clock) =>
            /\ collector_pc' = "finished"
            /\ Len(series') = Len(series) + 1
            /\ aggregated' = None
            /\ forwarded' = forwarded
       /\ collector_pc = "finished" =>
            /\ collector_pc' = "finished"
            /\ clock' = clock
            /\ series' = series
            /\ aggregated' = aggregated
            /\ handled' = handled
            /\ forwarded' = forwarded]_vars

\* a heartbeat trigger was enqueued behind the coordinator's Quit and the
\* collector stopped with samples in its buffer
C16_Witness ==
    /\ collector_pc = "finished"
    /\ handled /= <<>>
    /\ handled[Len(handled)].type = "Quit"
    /\ series /= <<>>
    /\ \E i, j \in 1 .. Len(enqueued) :
         /\ i < j
         /\ enqueued[i].type = "Quit"
         /\ enqueued[j].type = "Aggregation"
    /\ Aggregations(enqueued, Len(enqueued)) > Len(forwarded)

-----------------------------------------------------------------------------
(* C17: the publisher that takes Quit off the hand-off queue exits in that  *)
(* step and never calls the sink again: no message behind the Quit is      *)
(* passed to send.                                                          *)
C17_QuitEndsPublisher ==
    [][/\ ( /\ publisher_pc = "recv"
            /\ rx_metric /= <<>>
            /\ Head(rx_metric).type = "Quit"
            /\ Len(rx_metric') < Len(rx_metric) )
          => publisher_pc' = "finished" /\ measurement' = None /\ sink' = sink
       /\ publisher_pc = "finished" =>
            /\ publisher_pc' = "finished"
            /\ measurement' = None
            /\ sink' = sink]_vars

\* the publisher exited on a Quit that had an aggregate queued behind it
C17_Witness ==
    /\ publisher_pc = "finished"
    /\ Len(forwarded) > Len(sink)
    /\ \E i \in 1 .. Len(forwarded) :
         \A j \in 1 .. Len(sink) : sink[j].measurement /= forwarded[i]

-----------------------------------------------------------------------------
(* C18 as stated: the buffer is cleared only after the aggregate has been   *)
(* forwarded: while an aggregate awaits its forward, and after a forward    *)
(* that failed, the buffer still holds the samples.                         *)
C18_ClearedOnlyAfterForward ==
    /\ aggregated /= None => Len(series) >= aggregated[1].sample_count
    /\ ForwardFailed => series /= <<>>

(* C18, amended: the buffer is cleared as soon as an aggregate has been     *)
(* produced, before the forward is attempted, and it never shrinks          *)
(* otherwise; when the forward fails the buffer is already empty.           *)
C18_ClearedOnAggregate ==
    /\ [][IF aggregated = None /\ aggregated' /= None
          THEN series' = <<>> /\ aggregated'[1].sample_count = Len(series) + 1
          ELSE Len(series') >= Len(series)]_vars
    /\ [](aggregated /= None => series = <<>>)
    /\ [](ForwardFailed => series = <<>>)

\* a forward failed after a window of two samples had been aggregated
C18_Witness ==
    /\ ForwardFailed
    /\ series = <<>>
    /\ handled /= <<>>
    /\ handled[Len(handled)].type = "Aggregation"
    /\ handled[Len(handled)].buffered = 2
    /\ forwarded = <<>>

-----------------------------------------------------------------------------
(* C19: the sink's send is called at most once per aggregate: no aggregate  *)
(* is passed to it twice, after a failure or otherwise, and the calls never *)
(* outnumber the aggregates forwarded.                                      *)
C19_AtMostOnce ==
    /\ Len(sink) <= Len(forwarded)
    /\ \A i, j \in 1 .. Len(sink) :
         sink[i].measurement = sink[j].measurement => i = j
    /\ \A i \in 1 .. Len(sink) :
         \E k \in 1 .. Len(forwarded) : forwarded[k] = sink[i].measurement

\* a send failed and the publisher went on to the next aggregate
C19_Witness ==
    /\ Len(sink) >= 2
    /\ ~sink[1].ok
    /\ sink[2].measurement = forwarded[2]
    /\ Len(forwarded) >= 3

-----------------------------------------------------------------------------
(* C20: neither queue ever holds more messages than its capacity of 4       *)
(* (aggregates and Quit together on the hand-off queue); at a full hand-off *)
(* queue the collector keeps its aggregate until a slot is free, so every   *)
(* aggregate produced is forwarded or still held: none is lost.             *)
C20_Capacity ==
    /\ Len(rx_metric) <= MetricCapacity
    /\ Len(rx_aggregation) <= AggregationCapacity
    /\ Len(forwarded) + Len(aggregated) = Aggregations(handled, Len(handled))
    /\ (collector_pc = "send") = (aggregated /= None)

\* the collector waits at a hand-off queue of four aggregates while the
\* coordinator's Quit waits on the control queue
C20_Witness ==
    /\ ForwardWaits
    /\ Len(QueuedMetrics(rx_metric)) = MetricCapacity
    /\ aggregated /= None
    /\ publisher_pc = "recv"
    /\ rx_aggregation /= <<>>

-----------------------------------------------------------------------------
HeartbeatMessage == CollectorMessage("Aggregation", "heartbeat")

HeartbeatsEnqueued ==
    Cardinality({ i \in 1 .. Len(enqueued) : enqueued[i] = HeartbeatMessage })

(* C21: each heartbeat firing enqueues exactly one Aggregation trigger, or  *)
(* none when the collector has stopped; a failed send leaves the heartbeat  *)
(* running; once the collector has stopped no further aggregate is          *)
(* forwarded, and with the heartbeat firing and failing the shutdown still  *)
(* runs to its completion.                                                  *)
C21_Heartbeat ==
    /\ [](heartbeat_pc \in { "sleep", "send" })
    /\ [](HeartbeatsEnqueued + (IF heartbeat_pc = "send" THEN 1 ELSE 0) <= beats)
    /\ [][(heartbeat_pc = "send" /\ heartbeat_pc' /= "send") =>
            /\ heartbeat_pc' = "sleep"
            /\ IF rx_aggregation_closed
               THEN enqueued' = enqueued /\ rx_aggregation' = rx_aggregation
               ELSE /\ enqueued' = Append(enqueued, HeartbeatMessage)
                    /\ rx_aggregation' = Append(rx_aggregation, HeartbeatMessage)]_vars
    /\ [][collector_pc = "finished" =>
            forwarded' = forwarded /\ Len(sink') <= Len(forwarded)]_vars
    /\ (shutdown_pc /= "select") ~> (shutdown_pc = "done")

\* the shutdown completed although a heartbeat fired after the collector's
\* stop and its send failed
C21_Witness ==
    /\ shutdown_pc = "done"
    /\ heartbeat_pc = "sleep"
    /\ beats > HeartbeatsEnqueued
    /\ HeartbeatsEnqueued >= 1
    /\ Len(sink) = Len(forwarded)

-----------------------------------------------------------------------------
(* C22: at most one send to the sink is in flight: every call of the sink's *)
(* send is made by the publisher while it holds the sink's lock, and the    *)
(* lock is free again whenever the publisher takes the next message.        *)
C22_OneInFlight ==
    /\ [](Len(measurement) <= 1)
    /\ [](publisher_pc = "send" => publisher_lock /\ measurement /= None)
    /\ [](publisher_pc \in { "recv", "finished" } => ~publisher_lock)
    /\ [][sink' /= sink =>
            /\ Len(sink') = Len(sink) + 1
            /\ publisher_pc = "send"
            /\ publisher_lock
            /\ ~publisher_lock']_vars
    /\ [][Len(rx_metric') < Len(rx_metric) => ~publisher_lock]_vars

\* the publisher holds the lock for a later aggregate while another waits
C22_Witness ==
    /\ publisher_pc = "send"
    /\ publisher_lock
    /\ Len(sink) >= 2
    /\ QueuedMetrics(rx_metric) /= <<>>

-----------------------------------------------------------------------------
RECURSIVE SampleCounts(_)
SampleCounts(ms) ==
    IF ms = <<>> THEN 0 ELSE Head(ms).sample_count + SampleCounts(Tail(ms))

\* the aggregates the collector has produced, in order: those forwarded and
\* the one waiting in its forward
Produced == forwarded \o aggregated

(* C23: the samples taken are the samples of the aggregates produced plus   *)
(* the samples in the buffer; each aggregate counts exactly the samples     *)
(* taken since the previous aggregate, and the buffer holds exactly the     *)
(* samples taken since the last one, so no sample is counted twice.         *)
C23_SampleConservation ==
    /\ clock = SampleCounts(Produced) + Len(series)
    /\ \A k \in 1 .. Len(Produced) :
         Produced[k].sample_count =
           Produced[k].timestamp - (IF k = 1 THEN 0 ELSE Produced[k - 1].timestamp)
    /\ \A i \in 1 .. Len(series) :
         series[i].timestamp = clock - Len(series) + i

\* a window of two samples, later windows, and a sample left in the buffer
C23_Witness ==
    /\ Len(forwarded) >= 3
    /\ forwarded[1].sample_count = 2
    /\ Len(series) = 1
    /\ clock = SampleCounts(forwarded) + 1

-----------------------------------------------------------------------------
StoppedOnQuit ==
    /\ collector_pc = "finished"
    /\ handled /= <<>>
    /\ handled[Len(handled)].type = "Quit"

(* C24: a tick takes its sample first and then handles at most one control  *)
(* message, so a collector that stopped on Quit holds at least one sample   *)
(* in its buffer, taken after every aggregate and part of none; so it is in *)
(* the coordinated shutdown, after the final flush.                         *)
C24_SampleLostAtQuit ==
    /\ [][/\ Len(handled') <= Len(handled) + 1
          /\ handled' /= handled =>
               /\ clock' = clock + 1
               /\ handled'[Len(handled')].at = clock'
               /\ handled'[Len(handled')].buffered = Len(series) + 1]_vars
    /\ [](StoppedOnQuit =>
            /\ series /= <<>>
            /\ aggregated = None
            /\ series[Len(series)].timestamp = handled[Len(handled)].at
            /\ \A i \in 1 .. Len(series) : \A k \in 1 .. Len(forwarded) :
                 series[i].timestamp > forwarded[k].timestamp)

\* the coordinated shutdown completed: the final flush reached the sink and
\* the sample of the Quit tick stayed in the buffer
C24_Witness ==
    /\ shutdown_pc = "done"
    /\ StoppedOnQuit
    /\ Len(series) = 1
    /\ forwarded /= <<>>
    /\ series[1].timestamp = forwarded[Len(forwarded)].timestamp + 1
    /\ sink /= <<>>
    /\ sink[Len(sink)].measurement = forwarded[Len(forwarded)]

-----------------------------------------------------------------------------
\* every sample's peak is at least its instantaneous memory utilization
PeaksAboveInstant(s) ==
    \A i \in 1 .. Len(s) : s[i].max_mem_utilization >= s[i].mem_utilization

(* C25: for a non-empty series whose samples each have                      *)
(* max_mem_utilization >= mem_utilization, the aggregate has                *)
(* max_mem_utilization >= mem_utilization as well.                          *)
C25_PeakAboveMedian ==
    (collector_pc = "returned" /\ series /= <<>> /\ PeaksAboveInstant(series)) =>
        aggregated[1].max_mem_utilization >= aggregated[1].mem_utilization

\* the bound is met: the median of the instantaneous values is the highest
\* peak, over samples that differ
C25_Witness ==
    /\ collector_pc = "returned"
    /\ Len(series) = 3
    /\ PeaksAboveInstant(series)
    /\ series[1].mem_utilization /= series[3].mem_utilization
    /\ aggregated[1].max_mem_utilization = aggregated[1].mem_utilization
====
